---- MODULE Spec2Model ----
(***************************************************************************)
(* A model of the payment orchestration of the LazorKit example app.       *)
(*                                                                         *)
(* The state is that of one usePayment instance (src/hooks/usePayment.ts): *)
(* the three useState cells status / result / error, the wallet context    *)
(* the hook reads through useWallet(), and the pay() calls that are        *)
(* suspended at one of their two awaits (connect, signAndSendTransaction). *)
(* Each pay() call is an async function: it runs synchronously up to its   *)
(* first await and is resumed when the awaited promise settles.  A call    *)
(* keeps the values its closure captured when pay() was invoked            *)
(* (isConnected, smartWalletPubkey, merchantAddress), as the useCallback   *)
(* closure of the render in which it was created does.                     *)
(*                                                                         *)
(* Not modelled: PaymentResult.timestamp (Date.now()) and the lamports of  *)
(* the transfer instruction.                                               *)
(***************************************************************************)
EXTENDS Integers, Sequences, FiniteSets, TLC

(***************************************************************************)
(* Bounds of the model.                                                    *)
(***************************************************************************)
\* pay() calls made in one behaviour
MaxCalls == 2
\* words in the message of an error a collaborator rejects with
MaxThrownWords == 1
\* words in the message of an error the catch block classifies (SpecClassify)
MaxMsgLen == 2

\* the fetchBalance calls of one useBalance instance suspended at once
MaxFetches == 2

(***************************************************************************)
(* Program constants.                                                      *)
(***************************************************************************)
\* the safety ceiling on an amount, in SOL (TransferForm.validateAmount)
MAX_SAFE_AMOUNT == 1000

EXPLORER_BASE_URL == "https://solscan.io"
CLUSTER == "devnet"

(***************************************************************************)
(* Values.                                                                 *)
(***************************************************************************)
\* A JavaScript number: an integer amount of SOL, or NaN.
Num(n) == [nan |-> FALSE, v |-> n]
NaN == [nan |-> TRUE, v |-> 0]

\* amount <= n as JavaScript evaluates it: every comparison with NaN is false
NumLeq(a, n) == ~a.nan /\ a.v <= n

\* the amounts pay() is called with
Amounts == {Num(-1), Num(0), Num(1), Num(MAX_SAFE_AMOUNT), Num(MAX_SAFE_AMOUNT + 1), NaN}

PaymentCurrency == {"SOL", "USDC"}

\* reference?: string
NoReference == "undefined"
References == {NoReference, "order-1"}

\* smartWalletPubkey: PublicKey | null
NoPubkey == "null"
WalletAddresses == {"walletA", "walletB"}

\* the merchantAddress option of the hook: one address that parses, two that do not
ValidMerchantAddresses == {"merchant1"}
MerchantAddresses == ValidMerchantAddresses \cup {"", "not-base58!"}

\* signatures signAndSendTransaction resolves with
Signatures == {"sig123", "sig456"}

\* null of PaymentResult | null and PaymentError | null
Null == [null |-> TRUE]

(***************************************************************************)
(* Errors thrown by the collaborators.  A message is a sequence of words;  *)
(* String.prototype.includes(w) is containment of the word w.              *)
(***************************************************************************)
Words == {"cancel", "insufficient", "paymaster", "network", "fetch", "timeout"}

RECURSIVE SeqsUpTo(_, _)
SeqsUpTo(S, n) ==
    IF n = 0 THEN {<<>>}
    ELSE LET shorter == SeqsUpTo(S, n - 1)
         IN shorter \cup {Append(s, w) : s \in {t \in shorter : Len(t) = n - 1}, w \in S}

ErrorNames == {"Error", "UserCancelled"}

\* what connect() and signAndSendTransaction() can reject with: an Error with a
\* name and a message of at most n words, or a thrown value with no message
\* property
ErrorsUpTo(n) ==
    [name : ErrorNames, hasMessage : {TRUE}, message : SeqsUpTo(Words, n)]
    \cup [name : ErrorNames, hasMessage : {FALSE}, message : {<<>>}]

ThrownErrors == ErrorsUpTo(MaxThrownWords)

\* the errors of SpecClassify: messages long enough to match several patterns
ClassifiedErrors == ErrorsUpTo(MaxMsgLen)

\* new Error("Wallet not available")
WalletNotAvailable ==
    [name |-> "Error", hasMessage |-> TRUE, message |-> <<"Wallet not available">>]

\* error.message?.includes(w)
MessageIncludes(err, w) ==
    err.hasMessage /\ \E i \in 1..Len(err.message) : err.message[i] = w

\* new PublicKey(merchantAddress) does not throw
ParsesAsPublicKey(address) == address \in ValidMerchantAddresses

\* getExplorerUrl(signature): `${EXPLORER_BASE_URL}/tx/${signature}?cluster=${CLUSTER}`
getExplorerUrl(signature) == <<EXPLORER_BASE_URL, "/tx/", signature, "?cluster=", CLUSTER>>

(***************************************************************************)
(* State.                                                                  *)
(***************************************************************************)
VARIABLES
    status,             \* useState<PaymentStatus>("idle")
    result,             \* useState<PaymentResult | null>(null)
    error,              \* useState<PaymentError | null>(null)
    isConnected,        \* useWallet().isConnected
    isConnecting,       \* useWallet().isConnecting
    smartWalletPubkey,  \* useWallet().smartWalletPubkey
    merchantAddress,    \* options.merchantAddress
    calls,              \* the pay() calls, by the order in which they were made
    started,            \* the number of pay() calls made
    returned,           \* the pay() call that returned in the last step, if any
    widget,             \* the props and the useState cells of a PaymentWidget
    form,               \* the useState cells of a TransferForm and its pending call
    history,            \* the handler that ran in the last step, and the state it ran in
    balanceHook,        \* a useBalance instance: its cells, its interval, its fetches
    confirmation,       \* a confirmTransaction call: its locals and its position
    connectButton       \* the ConnectButton's handleClick calls suspended at connect()

walletVars == <<isConnected, isConnecting, smartWalletPubkey>>
hookVars == <<status, result, error>>
vars == <<status, result, error, isConnected, isConnecting, smartWalletPubkey,
          merchantAddress, calls, started, returned, widget, form, history,
          balanceHook, confirmation, connectButton>>
\* the state of the parts that stand apart from the hook, the widget and the
\* form: the two library parts and the ConnectButton
libVars == <<balanceHook, confirmation, connectButton>>

PaymentStatuses == {"idle", "connecting", "processing", "success", "error"}

\* isProcessing: status === "processing" || status === "connecting" || isConnecting
isProcessing == status = "processing" \/ status = "connecting" \/ isConnecting

CallIds == 1..MaxCalls

\* feeToken of a call that has not reached signAndSendTransaction
NotSubmitted == "not submitted"
\* transactionOptions.feeToken: undefined
NoFeeToken == "undefined"

\* A pay() call that has not been made.
NoCall ==
    [pc |-> "none", amount |-> Num(0), currency |-> "SOL", reference |-> NoReference,
     wasConnected |-> FALSE, pubkey |-> NoPubkey,
     connects |-> 0, signs |-> 0, starts |-> 0, trace |-> <<>>,
     feeToken |-> NotSubmitted]

\* A pay() call that has returned.
DoneCall == [NoCall EXCEPT !.pc = "done"]

\* The frame of a pay(amount, currency, reference) call as it is entered: its
\* arguments and the isConnected / smartWalletPubkey its closure captured.
NewCall(amount, currency, reference) ==
    [NoCall EXCEPT !.amount = amount, !.currency = currency, !.reference = reference,
                   !.wasConnected = isConnected, !.pubkey = smartWalletPubkey]

NoThrown == [name |-> "none", hasMessage |-> FALSE, message |-> <<>>]
NoSignature == "none"

\* The record of a call as it returns: its frame, what was thrown into its catch
\* block and by which step of the try block, the signature it received, the
\* PaymentError it passed to setError (Null if none) and the callback it invoked.
\* The hook state the call leaves behind is the state itself: `returned` holds a
\* call only in the state its return produces.
Returned(rec, thrownBy, thrown, signature, recorded, callback) ==
    [call |-> rec, thrownBy |-> thrownBy, thrown |-> thrown, signature |-> signature,
     recorded |-> recorded,
     errors |-> IF callback = "onPaymentError" THEN 1 ELSE 0,
     cancels |-> IF callback = "onPaymentCancel" THEN 1 ELSE 0,
     successes |-> IF callback = "onPaymentSuccess" THEN 1 ELSE 0]

NoneReturned == Returned(NoCall, "none", NoThrown, NoSignature, Null, "none")

(***************************************************************************)
(* PaymentWidget and TransferForm: the values of their inputs and state.   *)
(***************************************************************************)
\* the strings typed into an amount input
AmountStrings == {"", ".", "abc", "-1", "0", "1", "2", "1000", "1001"}

\* parseFloat(value), on AmountStrings
parseFloat(value) ==
    CASE value = "-1" -> Num(-1)
      [] value = "0" -> Num(0)
      [] value = "1" -> Num(1)
      [] value = "2" -> Num(2)
      [] value = "1000" -> Num(1000)
      [] value = "1001" -> Num(1001)
      [] OTHER -> NaN

\* value === "" || /^\d*\.?\d*$/.test(value), on AmountStrings
IsDecimalInput(value) == value \in {"", ".", "0", "1", "2", "1000", "1001"}

\* amount?: number, the prop of PaymentWidget
NoAmount == [undefined |-> TRUE]
AmountProps == {NoAmount, Num(0), Num(1)}

\* initialAmount?.toString() || "", on AmountProps
InitialCustomAmount(initialAmount) ==
    IF initialAmount = NoAmount THEN ""
    ELSE IF initialAmount = Num(0) THEN "0"
    ELSE "1"

\* the strings the user types into the amount input of the widget
CustomAmounts == {"", "abc", "0", "1", "2"}

\* The props of a PaymentWidget that its handlers read, and its two useState
\* cells as the component is first rendered.
NewWidget(allowCustomAmount, initialAmount, initialCurrency, enableGasless, reference) ==
    [allowCustomAmount |-> allowCustomAmount, initialAmount |-> initialAmount,
     enableGasless |-> enableGasless, reference |-> reference,
     customAmount |-> InitialCustomAmount(initialAmount),
     selectedCurrency |-> initialCurrency]

\* the widget of a page that uses the hook without a PaymentWidget
NoWidget == NewWidget(FALSE, NoAmount, "SOL", TRUE, NoReference)

\* the arguments of a pay() call made by the widget
Request(amount, currency, reference) ==
    [amount |-> amount, currency |-> currency, reference |-> reference]
NoRequest == [none |-> TRUE]

\* No handler of interest ran in the last step.  `submitted` is the request the
\* widget last passed to pay(); `previous` is the one before it, kept only in
\* the state a retry produces.  `sinceReset` holds from a reset() call until
\* the next pay() call, and `toggled` once a button of the
\* "Pay fees with" toggle has been clicked.
NoHistory ==
    [handler |-> "none", from |-> "none", recoverable |-> FALSE,
     previous |-> NoRequest, submitted |-> NoRequest, sinceReset |-> FALSE,
     toggled |-> FALSE]

\* the history after a step of a handler that is not recorded
Unrecorded ==
    [NoHistory EXCEPT !.submitted = history.submitted,
                      !.sinceReset = history.sinceReset,
                      !.toggled = history.toggled]

\* the history after the handler `name` ran in the current state
Recorded(name) ==
    [Unrecorded EXCEPT !.handler = name, !.from = status,
                       !.recoverable = (error # Null /\ error.recoverable)]

\* the strings typed into the recipient input of the TransferForm
Recipients == {"", "  ", "recipient1", "not-base58!"}
ValidRecipients == {"recipient1"}

\* the strings typed into the amount input of the TransferForm
FormAmounts == {"", "abc", "0", "1", "1000", "1001"}

\* signature?: string and the two field errors, when absent
Undefined == "undefined"
\* error?: string of TransactionResult, when absent (a message is a sequence of
\* words, and no message the form sets is empty)
NoMessage == <<>>

\* the handler of the TransferForm that ran last, and the error its await threw
FormStep(name, thrown) == [handler |-> name, thrown |-> thrown]
NoFormStep == FormStep("none", NoThrown)

\* TransferForm as first rendered: useState(""), useState(""),
\* useState("USDC"), useState({ status: "idle" }), useState({}); no
\* handleSubmit call is suspended at signAndSendTransaction
InitialForm ==
    [recipient |-> "", amount |-> "", feeToken |-> "USDC",
     status |-> "idle", signature |-> Undefined, error |-> NoMessage,
     recipientError |-> Undefined, amountError |-> Undefined,
     pending |-> <<>>, last |-> NoFormStep]

(***************************************************************************)
(* useBalance and confirmTransaction: their values.                        *)
(***************************************************************************)
\* lamports per SOL, of @solana/web3.js
LAMPORTS_PER_SOL == 1000000000

\* the address option of useBalance: string | null
BalanceAddresses == WalletAddresses \cup {NoPubkey, "not-base58!"}

\* new PublicKey(address) does not throw
ParsesAsAddress(address) == address \in WalletAddresses

\* what connection.getBalance resolves with
Lamports == {0, 5}

\* lamports / LAMPORTS_PER_SOL, kept as the quotient it is
SolOf(lamports) == [lamports |-> lamports, per |-> LAMPORTS_PER_SOL]

\* a string where string | null is held
Message(m) == [message |-> m]

\* what a balance fetch throws: an Error with its message, or a value that is
\* not an Error
BalanceErrors ==
    {[isError |-> TRUE, message |-> <<"fetch", "failed">>],
     [isError |-> FALSE, message |-> <<>>]}

\* useBalance as first rendered with `address`: useState(null), useState(null),
\* useState(false), useState(null); no effect has run
RenderedBalanceHook(address) ==
    [phase |-> "rendered", address |-> address,
     balance |-> Null, balanceLamports |-> Null, isLoading |-> FALSE, error |-> Null,
     intervals |-> <<>>, fetches |-> <<>>, fired |-> "none"]

\* no useBalance instance
NoBalanceHook == [RenderedBalanceHook(NoPubkey) EXCEPT !.phase = "none"]

\* an option of confirmTransaction that was left out, and one that was given
NoOption == [undefined |-> TRUE]
Given(n) == [v |-> n]

\* timeout = 30000 and pollInterval = 1000, the defaults of the options
DEFAULT_TIMEOUT == 30000
DEFAULT_POLL_INTERVAL == 1000

\* the timeout and pollInterval options confirmTransaction is called with
TimeoutOptions == {NoOption, Given(0), Given(2000)}
PollIntervalOptions == {NoOption, Given(500)}

\* the milliseconds a getSignatureStatus call takes, and the milliseconds a
\* timer fires after its delay has passed
PollDurations == {500, 1500}
TimerLateness == {0, 500}

\* status.value of getSignatureStatus: null, or a SignatureStatus
TransactionErrors == {[kind |-> "InstructionError"]}
SignatureStatuses ==
    {Null} \cup [err : {Null} \cup TransactionErrors,
                 confirmationStatus : {"processed", "confirmed", "finalized"},
                 confirmations : {Null, Given(1)},
                 slot : {Given(42)}]

\* nothing polled yet, and a poll that threw
NoPoll == [none |-> TRUE]
Threw == [threw |-> TRUE]

\* no confirmTransaction call.  clock is Date.now() - startTime; tested is
\* its value at the last test of the loop; waits are the delays of the timers
\* awaited so far; polled is the outcome of the last getSignatureStatus.
NoConfirmation ==
    [pc |-> "none", timeout |-> 0, pollInterval |-> 0, clock |-> 0, tested |-> 0,
     waits |-> <<>>, polled |-> NoPoll, result |-> Null]

Init ==
    /\ status = "idle"
    /\ result = Null
    /\ error = Null
    /\ isConnected \in BOOLEAN
    /\ isConnecting = FALSE
    /\ smartWalletPubkey \in (IF isConnected THEN WalletAddresses ELSE {NoPubkey})
    /\ merchantAddress \in MerchantAddresses
    /\ calls = [c \in CallIds |-> NoCall]
    /\ started = 0
    /\ returned = NoneReturned
    /\ widget = NoWidget
    /\ form = InitialForm
    /\ history = NoHistory
    /\ balanceHook = NoBalanceHook
    /\ confirmation = NoConfirmation
    /\ connectButton = 0

(***************************************************************************)
(* usePayment.pay: the pure parts.                                         *)
(***************************************************************************)
\* AmountInvalid with the comparison written amount < 0
AmountInvalidStrict(amount) == ~amount.nan /\ amount.v < 0

\* if (amount <= 0)
AmountInvalid(amount) == NumLeq(amount, 0)

InvalidAmountError ==
    [code |-> "INVALID_AMOUNT", message |-> <<"Amount must be greater than 0">>,
     recoverable |-> TRUE]

InvalidMerchantError ==
    [code |-> "INVALID_MERCHANT", message |-> <<"Invalid merchant address">>,
     recoverable |-> FALSE]

\* IsUserCancelled without the test of the message
IsUserCancelledByName(err) == err.name = "UserCancelled"

\* if (error.name === "UserCancelled" || error.message?.includes("cancel"))
IsUserCancelled(err) == err.name = "UserCancelled" \/ MessageIncludes(err, "cancel")

\* MessageOrDefault without the fallback: message: error.message
MessageRaw(err) == err.message

\* error.message || "Payment failed"
MessageOrDefault(err) ==
    IF err.hasMessage /\ err.message # <<>> THEN err.message ELSE <<"Payment failed">>

\* ClassifyError with the paymaster branch placed before the insufficient branch
ClassifyErrorPaymasterFirst(err) ==
    IF MessageIncludes(err, "paymaster")
    THEN [code |-> "PAYMASTER_ERROR",
          message |-> <<"Fee sponsorship unavailable. Try using SOL for fees.">>,
          recoverable |-> TRUE]
    ELSE IF MessageIncludes(err, "insufficient")
    THEN [code |-> "INSUFFICIENT_BALANCE",
          message |-> <<"Insufficient balance for this payment">>,
          recoverable |-> FALSE]
    ELSE IF MessageIncludes(err, "network") \/ MessageIncludes(err, "fetch")
    THEN [code |-> "NETWORK_ERROR",
          message |-> <<"Network error. Please check your connection.">>,
          recoverable |-> TRUE]
    ELSE [code |-> "TRANSACTION_FAILED",
          message |-> MessageOrDefault(err),
          recoverable |-> TRUE]

\* ClassifyError with the recoverable flags of the error-code table of
\* docs/03-payment-widget.md: INSUFFICIENT_BALANCE recoverable,
\* TRANSACTION_FAILED not
ClassifyErrorAsDocumented(err) ==
    IF MessageIncludes(err, "insufficient")
    THEN [code |-> "INSUFFICIENT_BALANCE",
          message |-> <<"Insufficient balance for this payment">>,
          recoverable |-> TRUE]
    ELSE IF MessageIncludes(err, "paymaster")
    THEN [code |-> "PAYMASTER_ERROR",
          message |-> <<"Fee sponsorship unavailable. Try using SOL for fees.">>,
          recoverable |-> TRUE]
    ELSE IF MessageIncludes(err, "network") \/ MessageIncludes(err, "fetch")
    THEN [code |-> "NETWORK_ERROR",
          message |-> <<"Network error. Please check your connection.">>,
          recoverable |-> TRUE]
    ELSE [code |-> "TRANSACTION_FAILED",
          message |-> MessageOrDefault(err),
          recoverable |-> FALSE]

\* "Determine error type": the if / else-if chain of the catch block
ClassifyError(err) ==
    IF MessageIncludes(err, "insufficient")
    THEN [code |-> "INSUFFICIENT_BALANCE",
          message |-> <<"Insufficient balance for this payment">>,
          recoverable |-> FALSE]
    ELSE IF MessageIncludes(err, "paymaster")
    THEN [code |-> "PAYMASTER_ERROR",
          message |-> <<"Fee sponsorship unavailable. Try using SOL for fees.">>,
          recoverable |-> TRUE]
    ELSE IF MessageIncludes(err, "network") \/ MessageIncludes(err, "fetch")
    THEN [code |-> "NETWORK_ERROR",
          message |-> <<"Network error. Please check your connection.">>,
          recoverable |-> TRUE]
    ELSE [code |-> "TRANSACTION_FAILED",
          message |-> MessageOrDefault(err),
          recoverable |-> TRUE]

\* feeToken: currency === "USDC" ? "USDC" : undefined
FeeTokenOf(currency) == IF currency = "USDC" THEN "USDC" ELSE NoFeeToken

\* const paymentResult: PaymentResult = { signature, explorerUrl, amount, currency, reference }
PaymentResultOf(signature, rec) ==
    [signature |-> signature, explorerUrl |-> getExplorerUrl(signature),
     amount |-> rec.amount, currency |-> rec.currency, reference |-> rec.reference]

(***************************************************************************)
(* usePayment.pay: the steps of one call.  Each operator below constrains  *)
(* status, result, error, calls and returned; the action that uses it      *)
(* constrains the other variables.  Its first parameter h is what the      *)
(* cells result and error hold when the step runs: their current values,   *)
(* or null when the handler called reset() before pay().                   *)
(***************************************************************************)
\* the cells as they are
Current == [result |-> result, error |-> error]
\* the cells after setResult(null) and setError(null)
Cleared == [result |-> Null, error |-> Null]

\* A validation failure: setError, setStatus("error"), onPaymentError, return.
PayRejects(h, c, rec, paymentError) ==
    /\ error' = paymentError
    /\ status' = "error"
    /\ result' = h.result
    /\ calls' = [calls EXCEPT ![c] = DoneCall]
    /\ returned' = Returned([rec EXCEPT !.pc = "done", !.trace = Append(@, "error")],
                                 "none", NoThrown, NoSignature, paymentError, "onPaymentError")

\* PayCatch without the return that ends the cancellation branch: a cancelled
\* call falls through to the classification, after onPaymentCancel
PayCatchFallsThrough(h, c, rec, by, err) ==
    LET paymentError == ClassifyError(err)
    IN /\ error' = paymentError
       /\ status' = "error"
       /\ result' = h.result
       /\ calls' = [calls EXCEPT ![c] = DoneCall]
       /\ returned' =
            [Returned([rec EXCEPT !.pc = "done",
                                  !.trace = IF IsUserCancelled(err)
                                            THEN @ \o <<"idle", "error">>
                                            ELSE Append(@, "error")],
                      by, err, NoSignature, paymentError, "onPaymentError")
             EXCEPT !.cancels = IF IsUserCancelled(err) THEN 1 ELSE 0]

\* The catch block, entered with err thrown by the step `by` of the try block.
PayCatch(h, c, rec, by, err) ==
    IF IsUserCancelled(err)
    THEN /\ status' = "idle"
         /\ result' = h.result
         /\ error' = h.error
         /\ calls' = [calls EXCEPT ![c] = DoneCall]
         /\ returned' = Returned([rec EXCEPT !.pc = "done", !.trace = Append(@, "idle")],
                                 by, err, NoSignature, Null, "onPaymentCancel")
    ELSE LET paymentError == ClassifyError(err)
         IN /\ error' = paymentError
            /\ status' = "error"
            /\ result' = h.result
            /\ calls' = [calls EXCEPT ![c] = DoneCall]
            /\ returned' = Returned([rec EXCEPT !.pc = "done", !.trace = Append(@, "error")],
                                 by, err, NoSignature, paymentError, "onPaymentError")

\* PayAfterConnect without the wallet check
PayAfterConnectUnchecked(h, c, rec) ==
    /\ status' = "processing"
    /\ error' = Null
    /\ result' = h.result
    /\ calls' = [calls EXCEPT ![c] =
                   [rec EXCEPT !.pc = "submitting", !.starts = @ + 1, !.signs = @ + 1,
                               !.trace = Append(@, "processing"),
                               !.feeToken = FeeTokenOf(rec.currency)]]
    /\ returned' = NoneReturned

\* The try block from the wallet check on: the check reads the smartWalletPubkey
\* of the call's closure; then setStatus("processing"), setError(null),
\* onPaymentStart and the call of signAndSendTransaction, at which it suspends.
PayAfterConnect(h, c, rec) ==
    IF rec.pubkey = NoPubkey
    THEN PayCatch(h, c, rec, "walletCheck", WalletNotAvailable)
    ELSE /\ status' = "processing"
         /\ error' = Null
         /\ result' = h.result
         /\ calls' = [calls EXCEPT ![c] =
                        [rec EXCEPT !.pc = "submitting", !.starts = @ + 1, !.signs = @ + 1,
                                    !.trace = Append(@, "processing"),
                                    !.feeToken = FeeTokenOf(rec.currency)]]
         /\ returned' = NoneReturned

(***************************************************************************)
(* Actions.                                                                *)
(***************************************************************************)
\* pay(amount, currency, reference), up to its first await or its return,
\* entered with the cells result and error holding h
PayAfter(h, amount, currency, reference) ==
    /\ started < MaxCalls
    /\ started' = started + 1
    /\ merchantAddress' = merchantAddress
    /\ LET c == started + 1
           rec == NewCall(amount, currency, reference)
       IN IF AmountInvalid(amount)
          THEN PayRejects(h, c, rec, InvalidAmountError) /\ UNCHANGED walletVars
          ELSE IF ~ParsesAsPublicKey(merchantAddress)
          THEN PayRejects(h, c, rec, InvalidMerchantError) /\ UNCHANGED walletVars
          ELSE IF ~isConnected
          THEN /\ status' = "connecting"
               /\ result' = h.result
               /\ error' = h.error
               /\ returned' = NoneReturned
               /\ calls' = [calls EXCEPT ![c] =
                              [rec EXCEPT !.pc = "connecting", !.connects = @ + 1,
                                          !.trace = Append(@, "connecting")]]
               /\ isConnecting' = TRUE
               /\ UNCHANGED <<isConnected, smartWalletPubkey>>
          ELSE PayAfterConnect(h, c, rec) /\ UNCHANGED walletVars

\* pay(amount, currency, reference) called by the user of the hook
Pay(amount, currency, reference) ==
    /\ PayAfter(Current, amount, currency, reference)
    /\ history' = [Unrecorded EXCEPT !.sinceReset = FALSE]
    /\ UNCHANGED <<widget, form, libVars>>

\* connect() resolves for call c: the wallet is connected with an address, and
\* the call resumes after `await connect()`
ConnectResolves(c, address) ==
    /\ calls[c].pc = "connecting"
    /\ address \in (IF isConnected THEN {smartWalletPubkey} ELSE WalletAddresses)
    /\ isConnected' = TRUE
    /\ smartWalletPubkey' = address
    /\ isConnecting' = FALSE
    /\ PayAfterConnect(Current, c, calls[c])
    /\ history' = Unrecorded
    /\ UNCHANGED <<merchantAddress, started, widget, form, libVars>>

\* connect() rejects for call c with err
ConnectRejects(c, err) ==
    /\ calls[c].pc = "connecting"
    /\ isConnecting' = FALSE
    /\ PayCatch(Current, c, calls[c], "connect", err)
    /\ history' = Unrecorded
    /\ UNCHANGED <<isConnected, smartWalletPubkey, merchantAddress, started, widget, form, libVars>>

\* signAndSendTransaction() resolves for call c with a signature
SignResolves(c, signature) ==
    /\ calls[c].pc = "submitting"
    /\ LET rec == calls[c]
           paymentResult == PaymentResultOf(signature, rec)
       IN /\ result' = paymentResult
          /\ status' = "success"
          /\ error' = error
          /\ calls' = [calls EXCEPT ![c] = DoneCall]
          /\ returned' = Returned([rec EXCEPT !.pc = "done", !.trace = Append(@, "success")],
                                 "none", NoThrown, signature, Null, "onPaymentSuccess")
    /\ history' = Unrecorded
    /\ UNCHANGED <<walletVars, merchantAddress, started, widget, form, libVars>>

\* signAndSendTransaction() rejects for call c with err
SignRejects(c, err) ==
    /\ calls[c].pc = "submitting"
    /\ PayCatch(Current, c, calls[c], "sign", err)
    /\ history' = Unrecorded
    /\ UNCHANGED <<walletVars, merchantAddress, started, widget, form, libVars>>

\* Reset without setError(null)
ResetKeepsError ==
    /\ status' = "idle"
    /\ result' = Null
    /\ error' = error
    /\ returned' = NoneReturned
    /\ history' = [Recorded("reset") EXCEPT !.sinceReset = TRUE]
    /\ UNCHANGED <<walletVars, merchantAddress, calls, started, widget, form, libVars>>

\* Reset without setStatus("idle")
ResetKeepsStatus ==
    /\ status' = status
    /\ result' = Null
    /\ error' = Null
    /\ returned' = NoneReturned
    /\ history' = [Recorded("reset") EXCEPT !.sinceReset = TRUE]
    /\ UNCHANGED <<walletVars, merchantAddress, calls, started, widget, form, libVars>>

\* reset()
Reset ==
    /\ status' = "idle"
    /\ result' = Null
    /\ error' = Null
    /\ returned' = NoneReturned
    /\ history' = [Recorded("reset") EXCEPT !.sinceReset = TRUE]
    /\ UNCHANGED <<walletVars, merchantAddress, calls, started, widget, form, libVars>>

\* the wallet session ends (disconnect() from elsewhere on the page)
Disconnect ==
    /\ isConnected
    /\ isConnected' = FALSE
    /\ smartWalletPubkey' = NoPubkey
    /\ returned' = NoneReturned
    /\ history' = Unrecorded
    /\ UNCHANGED <<hookVars, isConnecting, merchantAddress, calls, started, widget, form, libVars>>

\* The steps of the hook with the arguments of pay() drawn from requests and the
\* rejections of the collaborators from errors.
NextWith(amounts, currencies, references, errors) ==
    \/ \E amount \in amounts, currency \in currencies, reference \in references :
          Pay(amount, currency, reference)
    \/ \E c \in CallIds, address \in WalletAddresses : ConnectResolves(c, address)
    \/ \E c \in CallIds, err \in errors : ConnectRejects(c, err)
    \/ \E c \in CallIds, signature \in Signatures : SignResolves(c, signature)
    \/ \E c \in CallIds, err \in errors : SignRejects(c, err)
    \/ Reset
    \/ Disconnect

Next == NextWith(Amounts, PaymentCurrency, References, ThrownErrors)

Spec == Init /\ [][Next]_vars

\* The catch block on the longer messages of ClassifiedErrors: one request
\* (1 SOL, fees in SOL, no reference), made when no other call is suspended, and
\* the collaborators rejecting it.
NextClassify ==
    \/ /\ \A c \in CallIds : calls[c].pc \notin {"connecting", "submitting"}
       /\ Pay(Num(1), "SOL", NoReference)
    \/ \E c \in CallIds, address \in WalletAddresses : ConnectResolves(c, address)
    \/ \E c \in CallIds, err \in ClassifiedErrors : ConnectRejects(c, err)
    \/ \E c \in CallIds, err \in ClassifiedErrors : SignRejects(c, err)

SpecClassify == Init /\ [][NextClassify]_vars

(***************************************************************************)
(* The callbacks of the options.  In the steps above every callback        *)
(* returns.  onPaymentStart and onPaymentSuccess are called inside the try *)
(* block of pay(), so what they throw enters its catch block; the steps    *)
(* below are those of a call whose callback throws.  (What onPaymentError  *)
(* or onPaymentCancel throws leaves pay() after the cells are written; it  *)
(* changes no state of the hook.)                                          *)
(***************************************************************************)
\* setResult(paymentResult), setStatus("success"), and onPaymentSuccess throws
\* err: the catch block runs on it
SuccessThrown(c, rec, signature, err) ==
    /\ result' = PaymentResultOf(signature, rec)
    /\ calls' = [calls EXCEPT ![c] = DoneCall]
    /\ IF IsUserCancelled(err)
       THEN /\ status' = "idle"
            /\ error' = error
            /\ returned' =
                 [Returned([rec EXCEPT !.pc = "done", !.trace = @ \o <<"success", "idle">>],
                           "onPaymentSuccess", err, signature, Null, "onPaymentCancel")
                  EXCEPT !.successes = 1]
       ELSE /\ status' = "error"
            /\ error' = ClassifyError(err)
            /\ returned' =
                 [Returned([rec EXCEPT !.pc = "done", !.trace = @ \o <<"success", "error">>],
                           "onPaymentSuccess", err, signature, ClassifyError(err),
                           "onPaymentError")
                  EXCEPT !.successes = 1]

\* signAndSendTransaction() resolves for call c and onPaymentSuccess throws err
SignResolvesSuccessThrows(c, signature, err) ==
    /\ calls[c].pc = "submitting"
    /\ SuccessThrown(c, calls[c], signature, err)
    /\ history' = Unrecorded
    /\ UNCHANGED <<walletVars, merchantAddress, started, widget, form, libVars>>

\* setStatus("processing"), setError(null), and onPaymentStart throws err: the
\* catch block runs on it, and signAndSendTransaction is not called
StartThrown(h, c, rec, err) ==
    PayCatch([result |-> h.result, error |-> Null], c,
             [rec EXCEPT !.starts = @ + 1, !.trace = Append(@, "processing")],
             "onPaymentStart", err)

\* pay() with the wallet connected, and onPaymentStart throws err.  (A call
\* that awaited connect() was made with smartWalletPubkey null in its closure:
\* it throws at the wallet check and never reaches onPaymentStart.)
PayStartThrows(amount, currency, reference, err) ==
    /\ started < MaxCalls
    /\ ~AmountInvalid(amount)
    /\ ParsesAsPublicKey(merchantAddress)
    /\ isConnected
    /\ smartWalletPubkey # NoPubkey
    /\ started' = started + 1
    /\ StartThrown(Current, started + 1, NewCall(amount, currency, reference), err)
    /\ history' = [Unrecorded EXCEPT !.sinceReset = FALSE]
    /\ UNCHANGED <<walletVars, merchantAddress, widget, form, libVars>>

\* the requests of SpecCallbacks
CallbackAmounts == {Num(0), Num(1)}

\* The hook with callbacks that return or throw.
NextCallbacks ==
    \/ NextWith(CallbackAmounts, PaymentCurrency, {NoReference}, ThrownErrors)
    \/ \E c \in CallIds, signature \in Signatures, err \in ThrownErrors :
          SignResolvesSuccessThrows(c, signature, err)
    \/ \E amount \in CallbackAmounts, currency \in PaymentCurrency, err \in ThrownErrors :
          PayStartThrows(amount, currency, NoReference, err)

SpecCallbacks == Init /\ [][NextCallbacks]_vars

(***************************************************************************)
(* PaymentWidget (src/components/payment/PaymentWidget.tsx) with the       *)
(* PaymentStatus it renders: the handlers behind its controls.  A control  *)
(* can be used when it is rendered and not disabled.                       *)
(***************************************************************************)
\* finalAmount: the parsed custom amount (0 when it does not parse), or
\* initialAmount || 0
finalAmount ==
    IF widget.allowCustomAmount
    THEN LET parsed == parseFloat(widget.customAmount)
         IN IF parsed.nan THEN Num(0) ELSE parsed
    ELSE IF widget.initialAmount = NoAmount \/ widget.initialAmount = Num(0)
         THEN Num(0)
         ELSE widget.initialAmount

\* enableGasless ? "USDC" : selectedCurrency
PayCurrency == IF widget.enableGasless THEN "USDC" ELSE widget.selectedCurrency

\* canPay without the test of isProcessing
canPayWhileProcessing == ~NumLeq(finalAmount, 0) /\ status # "success"

\* isAmountValid && !isProcessing && status !== "success"
canPay == ~NumLeq(finalAmount, 0) /\ ~isProcessing /\ status # "success"

\* TryAgainShown without the test of error.recoverable
TryAgainShownAlways == status = "error" /\ error # Null

\* PaymentStatus renders "Try Again": status === "error" && error, and
\* error.recoverable && onRetry
TryAgainShown == status = "error" /\ error # Null /\ error.recoverable

\* PaymentStatus renders "New Payment" (success) or "Cancel" (error)
ResetShown ==
    \/ status = "success" /\ result # Null
    \/ status = "error" /\ error # Null

\* the request handlePay passes to pay()
CurrentRequest == Request(finalAmount, PayCurrency, widget.reference)

\* handlePay: if (finalAmount <= 0) return; pay(...).  h is what the cells
\* result and error hold when handlePay is entered, and name the handler that
\* called it.
HandlePayAfter(h, name) ==
    IF NumLeq(finalAmount, 0)
    THEN /\ status' = (IF name = "handleRetry" THEN "idle" ELSE status)
         /\ result' = h.result
         /\ error' = h.error
         /\ returned' = NoneReturned
         /\ history' = [Recorded(name) EXCEPT !.previous = history.submitted,
                                              !.sinceReset = (name = "handleRetry") \/ @]
         /\ UNCHANGED <<walletVars, merchantAddress, calls, started>>
    ELSE /\ PayAfter(h, finalAmount, PayCurrency, widget.reference)
         /\ history' = [Recorded(name) EXCEPT !.previous = history.submitted,
                                              !.submitted = CurrentRequest,
                                              !.sinceReset = FALSE]

\* a click on the Pay button
HandlePay ==
    /\ status # "success"
    /\ canPay
    /\ HandlePayAfter(Current, "handlePay")
    /\ UNCHANGED <<widget, form, libVars>>

\* a click on "Try Again": reset(); handlePay()
HandleRetry ==
    /\ TryAgainShown
    /\ HandlePayAfter(Cleared, "handleRetry")
    /\ UNCHANGED <<widget, form, libVars>>

\* a click on "New Payment" or "Cancel": onReset = reset
HandleReset ==
    /\ ResetShown
    /\ Reset

\* handleAmountChange(value), the amount input being rendered and enabled
HandleAmountChange(value) ==
    /\ widget.allowCustomAmount
    /\ ~isProcessing
    /\ widget' = IF IsDecimalInput(value)
                 THEN [widget EXCEPT !.customAmount = value]
                 ELSE widget
    /\ returned' = NoneReturned
    /\ history' = Unrecorded
    /\ UNCHANGED <<hookVars, walletVars, merchantAddress, calls, started, form, libVars>>

\* setSelectedCurrency(currency), the fee toggle being rendered and enabled
SetSelectedCurrency(currency) ==
    /\ widget.enableGasless
    /\ ~isProcessing
    /\ widget' = [widget EXCEPT !.selectedCurrency = currency]
    /\ returned' = NoneReturned
    /\ history' = [Unrecorded EXCEPT !.toggled = TRUE]
    /\ UNCHANGED <<hookVars, walletVars, merchantAddress, calls, started, form, libVars>>

\* the widgets a page renders
Widgets ==
    {NewWidget(allowCustomAmount, initialAmount, initialCurrency, enableGasless, reference) :
        allowCustomAmount \in BOOLEAN, initialAmount \in AmountProps,
        initialCurrency \in PaymentCurrency, enableGasless \in BOOLEAN,
        reference \in References}

InitWidget ==
    /\ status = "idle"
    /\ result = Null
    /\ error = Null
    /\ isConnected \in BOOLEAN
    /\ isConnecting = FALSE
    /\ smartWalletPubkey \in (IF isConnected THEN WalletAddresses ELSE {NoPubkey})
    /\ merchantAddress \in MerchantAddresses
    /\ calls = [c \in CallIds |-> NoCall]
    /\ started = 0
    /\ returned = NoneReturned
    /\ widget \in Widgets
    /\ form = InitialForm
    /\ history = NoHistory
    /\ balanceHook = NoBalanceHook
    /\ confirmation = NoConfirmation
    /\ connectButton = 0

\* The widget: the user's clicks and edits, and the collaborators of the hook
\* settling.
NextWidget ==
    \/ HandlePay
    \/ HandleRetry
    \/ HandleReset
    \/ \E value \in CustomAmounts : HandleAmountChange(value)
    \/ \E currency \in PaymentCurrency : SetSelectedCurrency(currency)
    \/ \E c \in CallIds, address \in WalletAddresses : ConnectResolves(c, address)
    \/ \E c \in CallIds, err \in ThrownErrors : ConnectRejects(c, err)
    \/ \E c \in CallIds, signature \in Signatures : SignResolves(c, signature)
    \/ \E c \in CallIds, err \in ThrownErrors : SignRejects(c, err)
    \/ Disconnect

SpecWidget == InitWidget /\ [][NextWidget]_vars

(***************************************************************************)
(* ConnectButton (src/components/ConnectButton.tsx) on the page of a       *)
(* PaymentWidget.  The button is rendered disabled while isConnecting;     *)
(* otherwise a click runs handleClick, which awaits disconnect() when      *)
(* isConnected and connect() when not.  The wallet holds isConnecting from *)
(* a connect() call until it settles.                                      *)
(***************************************************************************)
\* what the steps of the ConnectButton leave alone
notWalletVars ==
    <<hookVars, merchantAddress, calls, started, widget, form, balanceHook, confirmation>>

\* a click on the button: isConnected ? await disconnect() : await connect().
\* The handleClick calls suspended at once are bounded by MaxCalls.
HandleClick ==
    /\ ~isConnecting
    /\ connectButton < MaxCalls
    /\ IF isConnected
       THEN /\ isConnected' = FALSE
            /\ smartWalletPubkey' = NoPubkey
            /\ UNCHANGED <<isConnecting, connectButton>>
       ELSE /\ isConnecting' = TRUE
            /\ connectButton' = connectButton + 1
            /\ UNCHANGED <<isConnected, smartWalletPubkey>>
    /\ returned' = NoneReturned
    /\ history' = Unrecorded
    /\ UNCHANGED notWalletVars

\* connect() resolves for a handleClick call, which returns
ClickConnectResolves(address) ==
    /\ connectButton > 0
    /\ address \in (IF isConnected THEN {smartWalletPubkey} ELSE WalletAddresses)
    /\ isConnected' = TRUE
    /\ smartWalletPubkey' = address
    /\ isConnecting' = FALSE
    /\ connectButton' = connectButton - 1
    /\ returned' = NoneReturned
    /\ history' = Unrecorded
    /\ UNCHANGED notWalletVars

\* connect() rejects for a handleClick call: handleClick has no catch, and the
\* rejection leaves it
ClickConnectRejects ==
    /\ connectButton > 0
    /\ isConnecting' = FALSE
    /\ connectButton' = connectButton - 1
    /\ returned' = NoneReturned
    /\ history' = Unrecorded
    /\ UNCHANGED <<isConnected, smartWalletPubkey, notWalletVars>>

\* the page: the widget and the button
NextPage ==
    \/ NextWidget
    \/ HandleClick
    \/ \E address \in WalletAddresses : ClickConnectResolves(address)
    \/ ClickConnectRejects

SpecPage == InitWidget /\ [][NextPage]_vars

(***************************************************************************)
(* TransferForm (src/components/TransferForm.tsx).                         *)
(***************************************************************************)
\* !value.trim()
IsBlank(value) == value \in {"", "  "}

validateRecipient(value) ==
    IF IsBlank(value) THEN "Recipient address is required"
    ELSE IF value \in ValidRecipients THEN Undefined
    ELSE "Invalid Solana address"

\* validateAmount without the ceiling of 1000 SOL
validateAmountNoCeiling(value) ==
    IF IsBlank(value) THEN "Amount is required"
    ELSE LET num == parseFloat(value)
         IN IF num.nan \/ num.v <= 0 THEN "Amount must be greater than 0"
            ELSE Undefined

validateAmount(value) ==
    IF IsBlank(value) THEN "Amount is required"
    ELSE LET num == parseFloat(value)
         IN IF num.nan \/ num.v <= 0 THEN "Amount must be greater than 0"
            ELSE IF num.v > MAX_SAFE_AMOUNT
            THEN "Amount too large (max 1000 SOL for safety)"
            ELSE Undefined

\* recipient.trim() && amount.trim() && !validateRecipient(recipient) &&
\* !validateAmount(amount)
isFormValid ==
    /\ ~IsBlank(form.recipient)
    /\ ~IsBlank(form.amount)
    /\ validateRecipient(form.recipient) = Undefined
    /\ validateAmount(form.amount) = Undefined

\* what the steps of the TransferForm leave alone
paymentVars ==
    <<status, result, error, merchantAddress, calls, started, returned, widget, history,
      libVars>>

\* setResult(r): the whole TransactionResult is replaced
SetFormResult(f, st, signature, message) ==
    [f EXCEPT !.status = st, !.signature = signature, !.error = message]

\* handleRecipientChange(value), the input being enabled
HandleRecipientChange(value) ==
    /\ form.status # "loading"
    /\ form' = [form EXCEPT !.recipient = value,
                            !.recipientError = IF @ # Undefined
                                               THEN validateRecipient(value)
                                               ELSE @,
                            !.last = FormStep("handleRecipientChange", NoThrown)]
    /\ UNCHANGED <<paymentVars, walletVars>>

\* handleAmountChange(value) of the form, the input being enabled
HandleFormAmountChange(value) ==
    /\ form.status # "loading"
    /\ form' = [form EXCEPT !.amount = value,
                            !.amountError = IF @ # Undefined
                                            THEN validateAmount(value)
                                            ELSE @,
                            !.last = FormStep("handleAmountChange", NoThrown)]
    /\ UNCHANGED <<paymentVars, walletVars>>

\* onBlur of the recipient input, the input being enabled
HandleRecipientBlur ==
    /\ form.status # "loading"
    /\ form' = [form EXCEPT !.recipientError = validateRecipient(form.recipient),
                            !.last = FormStep("onBlur", NoThrown)]
    /\ UNCHANGED <<paymentVars, walletVars>>

\* onBlur of the amount input, the input being enabled
HandleAmountBlur ==
    /\ form.status # "loading"
    /\ form' = [form EXCEPT !.amountError = validateAmount(form.amount),
                            !.last = FormStep("onBlur", NoThrown)]
    /\ UNCHANGED <<paymentVars, walletVars>>

\* setFeeToken(token), the toggle being enabled
SetFeeToken(token) ==
    /\ form.status # "loading"
    /\ form' = [form EXCEPT !.feeToken = token,
                            !.last = FormStep("setFeeToken", NoThrown)]
    /\ UNCHANGED <<paymentVars, walletVars>>

\* handleSubmit, up to its await or its return
HandleSubmitBody ==
    LET recipientError == validateRecipient(form.recipient)
        amountError == validateAmount(form.amount)
        f == [form EXCEPT !.last = FormStep("handleSubmit", NoThrown)]
    IN IF recipientError # Undefined \/ amountError # Undefined
       THEN form' = [f EXCEPT !.recipientError = recipientError,
                              !.amountError = amountError]
       ELSE IF smartWalletPubkey = NoPubkey
       THEN form' = SetFormResult(f, "error", Undefined, <<"Wallet not connected">>)
       ELSE form' = [SetFormResult(f, "loading", Undefined, NoMessage)
                     EXCEPT !.pending =
                         Append(@, [recipient |-> form.recipient, amount |-> form.amount,
                                    feeToken |-> FeeTokenOf(form.feeToken),
                                    sender |-> smartWalletPubkey])]

\* HandleSubmit without the test of result.status
HandleSubmitWhileLoading ==
    /\ isFormValid
    /\ HandleSubmitBody
    /\ UNCHANGED <<paymentVars, walletVars>>

\* a click on "Send SOL": disabled={!isFormValid || result.status === "loading"}
HandleSubmit ==
    /\ isFormValid
    /\ form.status # "loading"
    /\ HandleSubmitBody
    /\ UNCHANGED <<paymentVars, walletVars>>

\* handleSubmit run by a submit event of the <form> that no click on the button
\* produced (form.requestSubmit(), a dispatched event): the handler has no
\* guard of its own.  The number of suspended calls is bounded by MaxCalls.
HandleSubmitEvent ==
    /\ Len(form.pending) < MaxCalls
    /\ HandleSubmitBody
    /\ UNCHANGED <<paymentVars, walletVars>>

\* the pending calls without the i-th
WithoutPending(i) ==
    [j \in 1..(Len(form.pending) - 1) |->
        IF j < i THEN form.pending[j] ELSE form.pending[j + 1]]

\* FormSignResolves without setAmount("")
FormSignResolvesKeepsAmount(i, signature) ==
    /\ i \in 1..Len(form.pending)
    /\ form' = [SetFormResult(form, "success", signature, NoMessage)
                EXCEPT !.recipient = "", !.pending = WithoutPending(i),
                       !.last = FormStep("signResolves", NoThrown)]
    /\ UNCHANGED <<paymentVars, walletVars>>

\* signAndSendTransaction resolves for the i-th pending handleSubmit call
FormSignResolves(i, signature) ==
    /\ i \in 1..Len(form.pending)
    /\ form' = [SetFormResult(form, "success", signature, NoMessage)
                EXCEPT !.recipient = "", !.amount = "", !.pending = WithoutPending(i),
                       !.last = FormStep("signResolves", NoThrown)]
    /\ UNCHANGED <<paymentVars, walletVars>>

\* FormErrorMessage without the default "Transaction failed"
FormErrorMessageRaw(err) ==
    IF MessageIncludes(err, "insufficient")
    THEN <<"Insufficient balance for this transfer">>
    ELSE IF MessageIncludes(err, "paymaster")
    THEN <<"Paymaster error - try using SOL for fees instead">>
    ELSE err.message

\* error.message || "Transaction failed", replaced for the two patterns
FormErrorMessage(err) ==
    IF MessageIncludes(err, "insufficient")
    THEN <<"Insufficient balance for this transfer">>
    ELSE IF MessageIncludes(err, "paymaster")
    THEN <<"Paymaster error - try using SOL for fees instead">>
    ELSE IF err.hasMessage /\ err.message # <<>> THEN err.message
    ELSE <<"Transaction failed">>

\* signAndSendTransaction rejects for the i-th pending handleSubmit call
FormSignRejects(i, err) ==
    /\ i \in 1..Len(form.pending)
    /\ form' = [(IF err.name = "UserCancelled" \/ MessageIncludes(err, "cancel")
                 THEN SetFormResult(form, "idle", Undefined, NoMessage)
                 ELSE SetFormResult(form, "error", Undefined, FormErrorMessage(err)))
                EXCEPT !.pending = WithoutPending(i),
                       !.last = FormStep("signRejects", err)]
    /\ UNCHANGED <<paymentVars, walletVars>>

\* a click on "Try Again" of the form: setResult({ status: "idle" })
FormTryAgain ==
    /\ form.status = "error"
    /\ form.error # NoMessage
    /\ form' = [SetFormResult(form, "idle", Undefined, NoMessage)
                EXCEPT !.last = FormStep("tryAgain", NoThrown)]
    /\ UNCHANGED <<paymentVars, walletVars>>

InitForm ==
    /\ status = "idle"
    /\ result = Null
    /\ error = Null
    /\ isConnected \in BOOLEAN
    /\ isConnecting = FALSE
    /\ smartWalletPubkey \in (IF isConnected THEN WalletAddresses ELSE {NoPubkey})
    /\ merchantAddress \in ValidMerchantAddresses
    /\ calls = [c \in CallIds |-> NoCall]
    /\ started = 0
    /\ returned = NoneReturned
    /\ widget = NoWidget
    /\ form = InitialForm
    /\ history = NoHistory
    /\ balanceHook = NoBalanceHook
    /\ confirmation = NoConfirmation
    /\ connectButton = 0

\* The form: the user's edits and clicks, signAndSendTransaction settling, and
\* the wallet session ending.
NextForm ==
    \/ \E value \in Recipients : HandleRecipientChange(value)
    \/ \E value \in FormAmounts : HandleFormAmountChange(value)
    \/ HandleRecipientBlur
    \/ HandleAmountBlur
    \/ \E token \in PaymentCurrency : SetFeeToken(token)
    \/ HandleSubmit
    \/ \E i \in CallIds, signature \in Signatures : FormSignResolves(i, signature)
    \/ \E i \in CallIds, err \in ThrownErrors : FormSignRejects(i, err)
    \/ FormTryAgain
    \/ Disconnect

SpecForm == InitForm /\ [][NextForm]_vars

\* The form driven at the level of its handlers: as NextForm, with handleSubmit
\* run by any submit event instead of by the enabled button only.
NextFormHandler ==
    \/ \E value \in Recipients : HandleRecipientChange(value)
    \/ \E value \in FormAmounts : HandleFormAmountChange(value)
    \/ HandleRecipientBlur
    \/ HandleAmountBlur
    \/ \E token \in PaymentCurrency : SetFeeToken(token)
    \/ HandleSubmitEvent
    \/ \E i \in CallIds, signature \in Signatures : FormSignResolves(i, signature)
    \/ \E i \in CallIds, err \in ThrownErrors : FormSignRejects(i, err)
    \/ FormTryAgain
    \/ Disconnect

SpecFormHandler == InitForm /\ [][NextFormHandler]_vars

(***************************************************************************)
(* The two callers of signAndSendTransaction on one page, sharing one      *)
(* wallet: a usePayment hook and a TransferForm, with a ConnectButton      *)
(* through which the wallet is connected and disconnected.  One request    *)
(* and one valid pair of form inputs.                                      *)
(***************************************************************************)
\* the rejections of the collaborators on this page: a cancellation and a
\* failure of the network
SenderErrors ==
    {err \in ThrownErrors :
        err.name = "Error" /\ err.message \in {<<"cancel">>, <<"network">>}}

NextSender ==
    \/ NextWith({Num(1)}, {"SOL"}, {NoReference}, SenderErrors)
    \/ HandleClick
    \/ \E address \in WalletAddresses : ClickConnectResolves(address)
    \/ ClickConnectRejects
    \/ \E value \in ValidRecipients : HandleRecipientChange(value)
    \/ HandleFormAmountChange("1")
    \/ HandleSubmit
    \/ \E i \in CallIds, signature \in Signatures : FormSignResolves(i, signature)
    \/ \E i \in CallIds, err \in SenderErrors : FormSignRejects(i, err)
    \/ FormTryAgain

SpecSender == InitForm /\ [][NextSender]_vars

(***************************************************************************)
(* useBalance (src/hooks/useBalance.ts).  A commit of React is one step:   *)
(* the cleanup of the effects of the previous render, then the effects of  *)
(* the new one.  A fetch is a fetchBalance call suspended at               *)
(* connection.getBalance; it keeps the address its closure captured.       *)
(* State updates of an unmounted instance are dropped.                     *)
(***************************************************************************)
\* what the steps of useBalance leave alone
notBalanceVars ==
    <<status, result, error, walletVars, merchantAddress, calls, started, returned,
      widget, form, history, confirmation, connectButton>>

\* the fetchBalance calls suspended at once are bounded by MaxFetches
CanFetch == Len(balanceHook.fetches) < MaxFetches

\* !address
IsFalsy(address) == address \in {NoPubkey, ""}

\* the cells of `after`, unless the instance `b` is unmounted
Committed(b, after) ==
    IF b.phase = "unmounted"
    THEN [after EXCEPT !.balance = b.balance, !.balanceLamports = b.balanceLamports,
                       !.isLoading = b.isLoading, !.error = b.error]
    ELSE after

\* err instanceof Error ? err.message : "Failed to fetch balance"
BalanceErrorMessage(err) ==
    IF err.isError THEN err.message ELSE <<"Failed to fetch balance">>

\* the catch and finally blocks of fetchBalance
FetchCaught(b, err) ==
    [b EXCEPT !.error = Message(BalanceErrorMessage(err)),
              !.balance = Null, !.balanceLamports = Null, !.isLoading = FALSE]

\* fetchBalance of the render with `address`, up to its await or its return
FetchBalance(b, address, by) ==
    IF IsFalsy(address)
    THEN Committed(b, [b EXCEPT !.balance = Null, !.balanceLamports = Null])
    ELSE IF ~ParsesAsAddress(address)
    THEN Committed(b, FetchCaught(b, [isError |-> TRUE,
                                      message |-> <<"Invalid public key input">>]))
    ELSE Committed(b, [b EXCEPT !.isLoading = TRUE, !.error = Null,
                                !.fetches = Append(@, [address |-> address, by |-> by])])

\* the two effects of a render: fetchBalance(), and setInterval(fetchBalance,
\* 30000) unless !address
RunEffects(b) ==
    LET fetched == FetchBalance(b, b.address, "effect")
    IN IF IsFalsy(b.address) THEN fetched
       ELSE [fetched EXCEPT !.intervals = Append(@, b.address)]

\* the cleanup of the interval effect forgets to clear the interval
ClearIntervalNever(b) == b

\* the cleanup of the interval effect of the render with b.address:
\* clearInterval(interval), when that effect had set one
ClearInterval(b) ==
    IF IsFalsy(b.address) THEN b
    ELSE [b EXCEPT !.intervals = SubSeq(@, 1, Len(@) - 1)]

\* the first commit: both effects run
BalanceMount ==
    /\ balanceHook.phase = "rendered"
    /\ balanceHook' = [RunEffects(balanceHook) EXCEPT !.phase = "mounted", !.fired = "none"]
    /\ UNCHANGED notBalanceVars

\* a commit with another address: fetchBalance is a new function, so the
\* interval effect is cleaned up and both effects run again
BalanceAddressChange(address) ==
    /\ balanceHook.phase = "mounted"
    /\ address # balanceHook.address
    /\ CanFetch
    /\ balanceHook' = [RunEffects([ClearInterval(balanceHook) EXCEPT !.address = address])
                       EXCEPT !.fired = "none"]
    /\ UNCHANGED notBalanceVars

\* the i-th active interval fires: the fetchBalance it was set with runs
BalanceIntervalFires(i) ==
    /\ i \in 1..Len(balanceHook.intervals)
    /\ CanFetch
    /\ balanceHook' = [FetchBalance(balanceHook, balanceHook.intervals[i], "interval")
                       EXCEPT !.fired = balanceHook.intervals[i]]
    /\ UNCHANGED notBalanceVars

\* refresh(): the fetchBalance of the current render
BalanceRefresh ==
    /\ balanceHook.phase = "mounted"
    /\ CanFetch
    /\ balanceHook' = [FetchBalance(balanceHook, balanceHook.address, "refresh")
                       EXCEPT !.fired = "none"]
    /\ UNCHANGED notBalanceVars

\* the fetches without the i-th
WithoutFetch(i) ==
    [j \in 1..(Len(balanceHook.fetches) - 1) |->
        IF j < i THEN balanceHook.fetches[j] ELSE balanceHook.fetches[j + 1]]

\* connection.getBalance resolves for the i-th fetch
GetBalanceResolves(i, lamports) ==
    /\ i \in 1..Len(balanceHook.fetches)
    /\ balanceHook' =
           [Committed(balanceHook,
                      [balanceHook EXCEPT !.balanceLamports = Given(lamports),
                                          !.balance = SolOf(lamports),
                                          !.isLoading = FALSE])
            EXCEPT !.fetches = WithoutFetch(i), !.fired = "none"]
    /\ UNCHANGED notBalanceVars

\* connection.getBalance rejects for the i-th fetch
GetBalanceRejects(i, err) ==
    /\ i \in 1..Len(balanceHook.fetches)
    /\ balanceHook' =
           [Committed(balanceHook, FetchCaught(balanceHook, err))
            EXCEPT !.fetches = WithoutFetch(i), !.fired = "none"]
    /\ UNCHANGED notBalanceVars

\* the instance is unmounted: the cleanup of the interval effect runs
BalanceUnmount ==
    /\ balanceHook.phase = "mounted"
    /\ balanceHook' = [ClearInterval(balanceHook) EXCEPT !.phase = "unmounted",
                                                         !.fired = "none"]
    /\ UNCHANGED notBalanceVars

InitBalance ==
    /\ status = "idle"
    /\ result = Null
    /\ error = Null
    /\ isConnected = FALSE
    /\ isConnecting = FALSE
    /\ smartWalletPubkey = NoPubkey
    /\ merchantAddress \in ValidMerchantAddresses
    /\ calls = [c \in CallIds |-> NoCall]
    /\ started = 0
    /\ returned = NoneReturned
    /\ widget = NoWidget
    /\ form = InitialForm
    /\ history = NoHistory
    /\ balanceHook \in {RenderedBalanceHook(address) : address \in BalanceAddresses}
    /\ confirmation = NoConfirmation
    /\ connectButton = 0

\* One useBalance instance: its commits, its interval, refresh() and the
\* fetches settling.
NextBalance ==
    \/ BalanceMount
    \/ \E address \in BalanceAddresses : BalanceAddressChange(address)
    \/ \E i \in 1..MaxFetches : BalanceIntervalFires(i)
    \/ BalanceRefresh
    \/ \E i \in 1..MaxFetches, lamports \in Lamports : GetBalanceResolves(i, lamports)
    \/ \E i \in 1..MaxFetches, err \in BalanceErrors : GetBalanceRejects(i, err)
    \/ BalanceUnmount

SpecBalance == InitBalance /\ [][NextBalance]_vars

(***************************************************************************)
(* confirmTransaction (src/lib/transaction.ts).  One call: an async         *)
(* function suspended at getSignatureStatus (polling) or at its timer       *)
(* (waiting).  Time is read through Date.now(); it advances while the call  *)
(* is suspended.                                                            *)
(***************************************************************************)
\* what the steps of confirmTransaction leave alone
notConfirmVars ==
    <<status, result, error, walletVars, merchantAddress, calls, started, returned,
      widget, form, history, balanceHook, connectButton>>

\* timeout = 30000 in the destructuring: the default when the option is undefined
OrDefault(option, default) == IF option = NoOption THEN default ELSE option.v

\* JSON.stringify(status.value.err)
JSONStringify(err) == <<"{\"", err.kind, "\":[]}">>

\* the three results the function returns
FailedResult(st) ==
    [confirmed |-> FALSE, confirmations |-> Null,
     error |-> Message(<<"Transaction failed: ">> \o JSONStringify(st.err)),
     slot |-> st.slot]
ConfirmedResult(st) ==
    [confirmed |-> TRUE, confirmations |-> st.confirmations, error |-> Null,
     slot |-> st.slot]
TimeoutResult(timeout) ==
    [confirmed |-> FALSE, confirmations |-> Null,
     error |-> Message(<<"Transaction confirmation timeout after ", ToString(timeout), "ms">>),
     slot |-> Null]

\* while (Date.now() - startTime < timeout): the loop goes on to the next
\* poll, or is left for the final return
LoopTest(c) ==
    IF c.clock < c.timeout
    THEN [c EXCEPT !.pc = "polling", !.tested = c.clock]
    ELSE [c EXCEPT !.pc = "done", !.tested = c.clock, !.result = TimeoutResult(c.timeout)]

\* confirmTransaction(options), up to its first await or its return
ConfirmTransaction(timeout, pollInterval) ==
    /\ confirmation.pc = "none"
    /\ confirmation' = LoopTest([confirmation EXCEPT
                                     !.timeout = OrDefault(timeout, DEFAULT_TIMEOUT),
                                     !.pollInterval = OrDefault(pollInterval,
                                                                DEFAULT_POLL_INTERVAL),
                                     !.clock = 0])
    /\ UNCHANGED notConfirmVars

\* PollResolves with the test of confirmationStatus before the test of err
PollResolvesStatusFirst(st, d) ==
    /\ confirmation.pc = "polling"
    /\ LET c == [confirmation EXCEPT !.clock = @ + d, !.polled = st]
       IN confirmation' =
              IF st # Null /\ st.confirmationStatus \in {"confirmed", "finalized"}
              THEN [c EXCEPT !.pc = "done", !.result = ConfirmedResult(st)]
              ELSE IF st # Null /\ st.err # Null
              THEN [c EXCEPT !.pc = "done", !.result = FailedResult(st)]
              ELSE [c EXCEPT !.pc = "waiting"]
    /\ UNCHANGED notConfirmVars

\* getSignatureStatus resolves with status.value = st after d milliseconds
PollResolves(st, d) ==
    /\ confirmation.pc = "polling"
    /\ LET c == [confirmation EXCEPT !.clock = @ + d, !.polled = st]
       IN confirmation' =
              IF st # Null /\ st.err # Null
              THEN [c EXCEPT !.pc = "done", !.result = FailedResult(st)]
              ELSE IF st # Null /\ st.confirmationStatus \in {"confirmed", "finalized"}
              THEN [c EXCEPT !.pc = "done", !.result = ConfirmedResult(st)]
              ELSE [c EXCEPT !.pc = "waiting"]
    /\ UNCHANGED notConfirmVars

\* the catch block rethrows what getSignatureStatus threw
PollRejectsRethrows(d) ==
    /\ confirmation.pc = "polling"
    /\ confirmation' = [confirmation EXCEPT !.clock = @ + d, !.polled = Threw,
                                            !.pc = "rejected"]
    /\ UNCHANGED notConfirmVars

\* getSignatureStatus rejects after d milliseconds: the catch block waits
PollRejects(d) ==
    /\ confirmation.pc = "polling"
    /\ confirmation' = [confirmation EXCEPT !.clock = @ + d, !.polled = Threw,
                                            !.pc = "waiting"]
    /\ UNCHANGED notConfirmVars

\* the timer of setTimeout(resolve, pollInterval) fires, `late` milliseconds
\* after its delay, and the loop is tested again
WaitEnds(late) ==
    /\ confirmation.pc = "waiting"
    /\ confirmation' =
           LoopTest([confirmation EXCEPT
                         !.clock = @ + confirmation.pollInterval + late,
                         !.waits = Append(@, confirmation.pollInterval)])
    /\ UNCHANGED notConfirmVars

InitConfirm ==
    /\ status = "idle"
    /\ result = Null
    /\ error = Null
    /\ isConnected = FALSE
    /\ isConnecting = FALSE
    /\ smartWalletPubkey = NoPubkey
    /\ merchantAddress \in ValidMerchantAddresses
    /\ calls = [c \in CallIds |-> NoCall]
    /\ started = 0
    /\ returned = NoneReturned
    /\ widget = NoWidget
    /\ form = InitialForm
    /\ history = NoHistory
    /\ balanceHook = NoBalanceHook
    /\ confirmation = NoConfirmation
    /\ connectButton = 0

\* One confirmTransaction call and the RPC node and timers it awaits.
NextConfirm ==
    \/ \E timeout \in TimeoutOptions, pollInterval \in PollIntervalOptions :
           ConfirmTransaction(timeout, pollInterval)
    \/ \E st \in SignatureStatuses, d \in PollDurations : PollResolves(st, d)
    \/ \E d \in PollDurations : PollRejects(d)
    \/ \E late \in TimerLateness : WaitEnds(late)

SpecConfirm == InitConfirm /\ [][NextConfirm]_vars

\* The same with every awaited promise settling: the RPC call resolves or
\* rejects and the timer fires.
SpecConfirmFair == SpecConfirm /\ WF_vars(NextConfirm)

(***************************************************************************)
(* Properties of usePayment.                                               *)
(***************************************************************************)
\* the call that returned in the last step
CallReturned == returned.call.pc = "done"

\* the error thrown into the catch block of that call is cancellation-flavoured:
\* its name is UserCancelled or its message contains "cancel"
ThrownCancelFlavoured ==
    \/ returned.thrown.name = "UserCancelled"
    \/ /\ returned.thrown.hasMessage
       /\ \E i \in 1..Len(returned.thrown.message) : returned.thrown.message[i] = "cancel"

\* the message of the error thrown into the catch block contains the word w
ThrownMentions(w) ==
    /\ returned.thrown.hasMessage
    /\ \E i \in 1..Len(returned.thrown.message) : returned.thrown.message[i] = w

\* the codes a PaymentError of pay() can carry
ErrorCodes ==
    {"INVALID_AMOUNT", "INVALID_MERCHANT", "INSUFFICIENT_BALANCE", "PAYMASTER_ERROR",
     "NETWORK_ERROR", "TRANSACTION_FAILED"}

\* C1: a pay() call with amount <= 0 or with a merchantAddress that does not
\* parse, made with the wallet connected or not, ends with status error and a
\* PaymentError with code INVALID_AMOUNT or INVALID_MERCHANT, invokes
\* onPaymentError once, and invokes neither connect() nor
\* signAndSendTransaction().
C1_FailFastValidation ==
    (/\ CallReturned
     /\ \/ (~returned.call.amount.nan /\ returned.call.amount.v <= 0)
        \/ merchantAddress \notin ValidMerchantAddresses)
    => /\ status = "error"
       /\ error # Null
       /\ error.code \in {"INVALID_AMOUNT", "INVALID_MERCHANT"}
       /\ returned.errors = 1
       /\ returned.cancels = 0 /\ returned.successes = 0
       /\ returned.call.connects = 0
       /\ returned.call.signs = 0

\* C1 witness: a call with a valid amount and a merchant address that does not
\* parse, made while the wallet was disconnected, has returned with status error
\* and without connecting.
C1_Witness ==
    /\ CallReturned
    /\ returned.call.amount = Num(1)
    /\ merchantAddress = "not-base58!"
    /\ ~returned.call.wasConnected
    /\ status = "error"
    /\ error = InvalidMerchantError
    /\ returned.call.connects = 0

\* C2 (as claimed): a pay() call made with a valid request while the wallet is
\* disconnected, whose connect() resolves and whose submission does not reject,
\* moves connecting -> processing and ends with status success and
\* result.signature the signature signAndSendTransaction resolved with.
C2_ConnectOnDemandSucceeds ==
    (/\ CallReturned
     /\ returned.call.connects = 1
     /\ returned.thrownBy \notin {"connect", "sign"})
    => /\ status = "success"
       /\ result # Null
       /\ returned.signature \in Signatures
       /\ result.signature = returned.signature
       /\ returned.call.trace = <<"connecting", "processing", "success">>

\* C3 (as claimed): at most one signAndSendTransaction call of the instance is
\* outstanding at any time.
C3_NoDoubleSubmission ==
    Cardinality({c \in CallIds : calls[c].pc = "submitting"}) <= 1

\* C4 (as claimed): a pay() call whose connect() rejects with a
\* cancellation-flavoured error ends with status idle and error = null, invokes
\* onPaymentCancel once, does not invoke onPaymentError and never invokes
\* signAndSendTransaction.
C4_SilentCancellation ==
    (CallReturned /\ returned.thrownBy = "connect" /\ ThrownCancelFlavoured)
    => /\ status = "idle"
       /\ error = Null
       /\ returned.cancels = 1
       /\ returned.errors = 0
       /\ returned.call.signs = 0

\* C5 (as claimed): whatever connect() rejects with during pay(), the status
\* returns from connecting to idle, no PaymentError is recorded and
\* onPaymentError is not invoked.
C5_AnyConnectFailureSilent ==
    (CallReturned /\ returned.thrownBy = "connect")
    => /\ status = "idle"
       /\ returned.call.trace = <<"connecting", "idle">>
       /\ returned.recorded = Null
       /\ returned.errors = 0

\* C5 (amended): a cancellation-flavoured rejection of connect() during pay() is
\* silent: the status returns from connecting to idle, the call records no
\* PaymentError and does not invoke onPaymentError.  Any other rejection of
\* connect() ends the call with status error, a PaymentError recorded and
\* onPaymentError invoked once.
C5_CancelledConnectSilent ==
    (CallReturned /\ returned.thrownBy = "connect")
    => IF ThrownCancelFlavoured
       THEN /\ status = "idle"
            /\ returned.call.trace = <<"connecting", "idle">>
            /\ returned.recorded = Null
            /\ returned.errors = 0
       ELSE /\ status = "error"
            /\ returned.call.trace = <<"connecting", "error">>
            /\ returned.recorded # Null
            /\ error = returned.recorded
            /\ returned.errors = 1

\* C5 witness: connect() rejected with an Error whose message contains "cancel"
\* and the call has returned with status idle.
C5_Witness ==
    /\ CallReturned
    /\ returned.thrownBy = "connect"
    /\ returned.thrown.name = "Error"
    /\ returned.thrown.message = <<"cancel">>
    /\ status = "idle"
    /\ returned.cancels = 1

\* C6 (as claimed): whenever signAndSendTransaction rejects during pay(), whatever
\* the error's name and message, the call ends with status error and a
\* PaymentError carrying one code, and is not treated as a cancellation.
C6_SubmissionFailureIsError ==
    (CallReturned /\ returned.thrownBy = "sign")
    => /\ status = "error"
       /\ error # Null
       /\ error.code \in ErrorCodes
       /\ returned.cancels = 0

\* C6 (amended): whenever signAndSendTransaction rejects during pay() with an
\* error that is not cancellation-flavoured, the call ends with status error and
\* a PaymentError carrying one code, and is not treated as a cancellation; a
\* cancellation-flavoured rejection returns the status to idle and invokes
\* onPaymentCancel.
C6_UncancelledSubmissionFailureIsError ==
    (CallReturned /\ returned.thrownBy = "sign")
    => IF ThrownCancelFlavoured
       THEN /\ status = "idle"
            /\ returned.cancels = 1
            /\ returned.errors = 0
            /\ returned.recorded = Null
       ELSE /\ status = "error"
            /\ error # Null
            /\ error = returned.recorded
            /\ error.code \in ErrorCodes
            /\ returned.errors = 1
            /\ returned.cancels = 0

\* C6 witness: signAndSendTransaction rejected with an error that matches no
\* pattern and the call has returned with status error.
C6_Witness ==
    /\ CallReturned
    /\ returned.thrownBy = "sign"
    /\ returned.thrown.name = "Error"
    /\ returned.thrown.message = <<"timeout">>
    /\ status = "error"
    /\ error # Null
    /\ error.code = "TRANSACTION_FAILED"

\* C7: for a caught error that is not cancellation-flavoured the code of the
\* PaymentError is INSUFFICIENT_BALANCE if the message contains "insufficient",
\* otherwise PAYMASTER_ERROR if it contains "paymaster", otherwise NETWORK_ERROR
\* if it contains "network" or "fetch", otherwise TRANSACTION_FAILED, also when
\* the message matches several patterns.
C7_ClassificationPriority ==
    (CallReturned /\ returned.thrownBy # "none" /\ ~ThrownCancelFlavoured)
    => /\ status = "error"
       /\ error # Null
       /\ error.code =
            CASE ThrownMentions("insufficient") -> "INSUFFICIENT_BALANCE"
              [] ~ThrownMentions("insufficient") /\ ThrownMentions("paymaster")
                   -> "PAYMASTER_ERROR"
              [] /\ ~ThrownMentions("insufficient") /\ ~ThrownMentions("paymaster")
                 /\ (ThrownMentions("network") \/ ThrownMentions("fetch"))
                   -> "NETWORK_ERROR"
              [] OTHER -> "TRANSACTION_FAILED"

\* C7 witness: the submission rejected with a message that mentions the paymaster
\* before the insufficient balance, and the error is INSUFFICIENT_BALANCE.
C7_Witness ==
    /\ CallReturned
    /\ returned.thrownBy = "sign"
    /\ returned.thrown.message = <<"paymaster", "insufficient">>
    /\ error # Null
    /\ error.code = "INSUFFICIENT_BALANCE"

\* the messages the hook itself writes
HookMessages ==
    {<<"Amount must be greater than 0">>, <<"Invalid merchant address">>,
     <<"Insufficient balance for this payment">>,
     <<"Fee sponsorship unavailable. Try using SOL for fees.">>,
     <<"Network error. Please check your connection.">>,
     <<"Payment failed">>, <<"Wallet not available">>}

\* C8 (as claimed): in every reachable state PaymentError.message is one of the
\* messages written by the hook, never the message of a collaborator's error.
C8_UserSafeMessages ==
    error # Null => error.message \in HookMessages

\* the fixed message of each code that has one
FixedMessageOf(code) ==
    CASE code = "INVALID_AMOUNT" -> <<"Amount must be greater than 0">>
      [] code = "INVALID_MERCHANT" -> <<"Invalid merchant address">>
      [] code = "INSUFFICIENT_BALANCE" -> <<"Insufficient balance for this payment">>
      [] code = "PAYMASTER_ERROR"
           -> <<"Fee sponsorship unavailable. Try using SOL for fees.">>
      [] code = "NETWORK_ERROR" -> <<"Network error. Please check your connection.">>

\* C8 (amended): in every reachable state the PaymentError.message exposed by
\* usePayment (and passed to onPaymentError) is the fixed message chosen by the
\* hook for the codes INVALID_AMOUNT, INVALID_MERCHANT, INSUFFICIENT_BALANCE,
\* PAYMASTER_ERROR and NETWORK_ERROR, into which the raw message of the caught
\* error is never copied; for the code TRANSACTION_FAILED it is the caught
\* error's own message when it has a non-empty one, and "Payment failed"
\* otherwise.
C8_FixedMessagesButDefault ==
    /\ error # Null
       => /\ error.code \in ErrorCodes
          /\ error.code # "TRANSACTION_FAILED" => error.message = FixedMessageOf(error.code)
    /\ (CallReturned /\ returned.recorded # Null)
       => /\ error = returned.recorded
          /\ error.code = "TRANSACTION_FAILED"
             => error.message =
                  IF returned.thrown.hasMessage /\ Len(returned.thrown.message) > 0
                  THEN returned.thrown.message
                  ELSE <<"Payment failed">>

\* C8 witness: the submission rejected with the raw message "network" and the
\* PaymentError exposed carries the fixed message of NETWORK_ERROR.
C8_Witness ==
    /\ CallReturned
    /\ returned.thrownBy = "sign"
    /\ returned.thrown.message = <<"network">>
    /\ error # Null
    /\ error = returned.recorded
    /\ error.message = <<"Network error. Please check your connection.">>

\* C9 (as claimed): whenever a pay() call has invoked connect() or
\* signAndSendTransaction(), its amount is a number with
\* 0 < amount <= MAX_SAFE_AMOUNT.
C9_AmountGuardrail ==
    \A c \in CallIds :
        calls[c].pc \in {"connecting", "submitting"}
        => /\ ~calls[c].amount.nan
           /\ 0 < calls[c].amount.v
           /\ calls[c].amount.v <= MAX_SAFE_AMOUNT

\* a step of reset(): the three setters, no call started or resumed
IsResetStep ==
    /\ status' = "idle" /\ result' = Null /\ error' = Null
    /\ calls' = calls /\ started' = started

\* a step that enters pay()
IsPayStep == started' = started + 1

\* a step that enters pay() as the retry of a recoverable error
IsRetryStep ==
    /\ status = "error" /\ error # Null /\ error.recoverable
    /\ IsPayStep

\* what C10 allows a step taken in status success or error to do
TerminalStep ==
    status \in {"success", "error"}
    => /\ status' # status => (IsResetStep \/ IsRetryStep)
       /\ (IsPayStep /\ ~IsRetryStep)
            => calls'[started'].pc \notin {"connecting", "submitting"}

\* C10 (as claimed): once status is success or error it changes only by reset()
\* or, from error, by a retry of a recoverable error; and a pay() call made in
\* status success or error starts no connection and no submission (a retry
\* excepted).
C10_TerminalUntilReset ==
    [][TerminalStep]_vars

(***************************************************************************)
(* Properties of reset(), of the result and error cells and of             *)
(* isProcessing.                                                           *)
(***************************************************************************)
\* what C11 requires of a step in which reset() ran
ResetStepTotal ==
    /\ ENABLED Reset
    /\ history'.handler = "reset"
       => /\ status' = "idle" /\ result' = Null /\ error' = Null
          /\ calls' = calls /\ started' = started
          /\ returned' = NoneReturned
          /\ UNCHANGED walletVars

\* C11: reset() can be called in every state, and a step of reset() leaves
\* status = idle, result = null and error = null, starts or resumes no pay() call
\* (so invokes neither connect nor signAndSendTransaction), invokes no callback
\* and leaves the wallet as it was.
C11_ResetIsTotal ==
    [][ResetStepTotal]_vars

\* C11 witness: reset() has just run in status error while a PaymentError was
\* recorded, and the cells are cleared.
C11_Witness ==
    /\ history.handler = "reset"
    /\ history.from = "error"
    /\ history.recoverable
    /\ status = "idle" /\ result = Null /\ error = Null

\* C12 (as claimed): a pay() call with an amount > 0 and a merchant address that
\* parses, none of whose collaborators rejected, ends with status success and a
\* PaymentResult made of the call's amount, currency and reference, the
\* signature signAndSendTransaction resolved with and getExplorerUrl(signature),
\* and passes it to onPaymentSuccess.
C12_SuccessRoundTrip ==
    (/\ CallReturned
     /\ ~returned.call.amount.nan /\ returned.call.amount.v > 0
     /\ merchantAddress \in ValidMerchantAddresses
     /\ returned.thrownBy \notin {"connect", "sign"})
    => /\ status = "success"
       /\ returned.signature \in Signatures
       /\ result = [signature |-> returned.signature,
                    explorerUrl |-> getExplorerUrl(returned.signature),
                    amount |-> returned.call.amount,
                    currency |-> returned.call.currency,
                    reference |-> returned.call.reference]
       /\ returned.successes = 1
       /\ returned.errors = 0 /\ returned.cancels = 0

\* the codes whose PaymentError is built with recoverable: false
UnrecoverableCodes == {"INVALID_MERCHANT", "INSUFFICIENT_BALANCE"}

C16_ResultOnlyOnSuccess ==
    result # Null => status = "success"

\* C17 (as claimed): in every reachable state of the hook, error # null implies
\* status = error; status idle, connecting and success have error = null.
C17_ErrorOnlyOnFailure ==
    error # Null => status = "error"

\* C18 (as claimed): in every reachable state, isProcessing is true if and only
\* if status is connecting or processing.
C18_IsProcessingReflectsPayment ==
    isProcessing <=> status \in {"connecting", "processing"}

\* C19 (as claimed): a PaymentError with code TRANSACTION_FAILED has
\* recoverable = false, and one with code INSUFFICIENT_BALANCE, INVALID_AMOUNT,
\* PAYMASTER_ERROR or NETWORK_ERROR has recoverable = true.
C19_DocumentedRecoverability ==
    error # Null
    => /\ error.code = "TRANSACTION_FAILED" => ~error.recoverable
       /\ error.code \in {"INSUFFICIENT_BALANCE", "INVALID_AMOUNT", "PAYMASTER_ERROR",
                          "NETWORK_ERROR"}
            => error.recoverable

(***************************************************************************)
(* Properties of the retry of PaymentWidget.                               *)
(***************************************************************************)
\* C14 (as claimed): the request a retry passes to pay() is the request the
\* widget last passed to pay(): same amount, fee method and reference, whatever
\* was edited in between.
C14_RetrySameRequest ==
    history.handler = "handleRetry" => history.submitted = history.previous

\* C15: handleRetry runs only in a state with status error and an error that is
\* recoverable, and it cannot be triggered in any other state: with status not
\* error, or with an error that is not recoverable, "Try Again" is not offered
\* (so status, result and error are not changed by it).
C15_RetryPrecondition ==
    /\ history.handler = "handleRetry" => (history.from = "error" /\ history.recoverable)
    /\ ENABLED HandleRetry => (status = "error" /\ error # Null /\ error.recoverable)

\* C15 witness: "Try Again" was clicked on a recoverable error and pay() was
\* called again.
C15_Witness ==
    /\ history.handler = "handleRetry"
    /\ history.from = "error"
    /\ history.recoverable
    /\ history.submitted # NoRequest
    /\ started = 2
    /\ status \in {"connecting", "processing"}

(***************************************************************************)
(* Properties of TransferForm.                                             *)
(***************************************************************************)
\* the moves of result.status that C20 allows
FormStatusMoves ==
    {<<"idle", "loading">>, <<"loading", "success">>, <<"loading", "error">>,
     <<"success", "idle">>, <<"error", "idle">>}

\* a step changes result.status of the form only by one of those moves
FormStatusStep ==
    form'.status # form.status => <<form.status, form'.status>> \in FormStatusMoves

\* C20 (as claimed): result.status of the TransferForm only ever moves
\* idle -> loading -> (success | error) -> idle: loading is entered only from
\* idle, error and success only from loading, and error and success are left
\* only for idle.
C20_FormStatusMachine ==
    [][FormStatusStep]_vars

\* the recipient typed is non-blank and parses as an address, and the amount
\* typed parses to a number n with 0 < n <= 1000
FormInputsValid ==
    /\ form.recipient \notin {"", "  "}
    /\ form.recipient \in ValidRecipients
    /\ ~parseFloat(form.amount).nan
    /\ 0 < parseFloat(form.amount).v
    /\ parseFloat(form.amount).v <= 1000

\* a step in which signAndSendTransaction is invoked: a handleSubmit call
\* becomes suspended at its await
FormSubmits == Len(form'.pending) > Len(form.pending)

\* a step of handleSubmit is validated: it submits only valid inputs, and on
\* inputs that are not valid it submits nothing, leaves result alone and sets
\* the error of each field that failed
SubmitStepValidated ==
    /\ FormSubmits => (form'.last.handler = "handleSubmit" /\ FormInputsValid)
    /\ (form' # form /\ form'.last.handler = "handleSubmit" /\ ~FormInputsValid)
           => /\ form'.pending = form.pending
              /\ form'.status = form.status
              /\ form'.signature = form.signature
              /\ form'.error = form.error
              /\ form'.recipientError # Undefined \/ form'.amountError # Undefined
              /\ form.recipient \notin ValidRecipients => form'.recipientError # Undefined
              /\ (parseFloat(form.amount).nan \/ parseFloat(form.amount).v <= 0
                    \/ parseFloat(form.amount).v > 1000) => form'.amountError # Undefined

\* C21: handleSubmit invokes signAndSendTransaction only when the recipient is
\* non-blank and parses as an address and the amount parses to a number n with
\* 0 < n <= 1000; when either validation fails no submission is made, the
\* field errors are set and result.status is left unchanged.
C21_ValidatesBeforeSubmitting ==
    [][SubmitStepValidated]_vars

\* C21 witness: handleSubmit ran on an amount above the ceiling with a valid
\* recipient: nothing was submitted, the amount error is set and the status is
\* still idle.
C21_Witness ==
    /\ form.last.handler = "handleSubmit"
    /\ form.recipient \in ValidRecipients
    /\ form.amount = "1001"
    /\ form.amountError = "Amount too large (max 1000 SOL for safety)"
    /\ form.recipientError = Undefined
    /\ form.status = "idle"
    /\ form.pending = <<>>

\* a step in which a submission ends: signAndSendTransaction settles for a
\* suspended handleSubmit call
FormSettles == Len(form'.pending) < Len(form.pending)

\* the frame of such a step: success clears recipient and amount and keeps the
\* fee method; failure and cancellation keep all three
SettleStepFrame ==
    FormSettles =>
        IF form'.status = "success"
        THEN /\ form'.recipient = ""
             /\ form'.amount = ""
             /\ form'.feeToken = form.feeToken
        ELSE /\ form'.status \in {"error", "idle"}
             /\ form'.recipient = form.recipient
             /\ form'.amount = form.amount
             /\ form'.feeToken = form.feeToken

\* C22: after a successful submission the recipient and amount inputs are
\* cleared and the fee-method selection is unchanged; after a failed or
\* cancelled submission recipient, amount and fee method are all left unchanged.
C22_FormResetFrame ==
    [][SettleStepFrame]_vars

\* C22 witness: a submission made with fee method SOL succeeded: both inputs
\* are empty and the fee method is still SOL.
C22_Witness ==
    /\ form.last.handler = "signResolves"
    /\ form.status = "success"
    /\ form.signature \in Signatures
    /\ form.recipient = ""
    /\ form.amount = ""
    /\ form.feeToken = "SOL"

\* the error the last rejected submission threw is cancellation-flavoured: its
\* name is UserCancelled or its message contains "cancel"
FormThrownCancelFlavoured ==
    \/ form.last.thrown.name = "UserCancelled"
    \/ /\ form.last.thrown.hasMessage
       /\ \E k \in 1..Len(form.last.thrown.message) :
              form.last.thrown.message[k] = "cancel"

\* C23: if signAndSendTransaction rejects with name UserCancelled or a message
\* containing "cancel", result.status returns to idle with no error message
\* shown; every other rejection ends with result.status = error and a non-empty
\* error message.
C23_CancellationIsSilent ==
    form.last.handler = "signRejects" =>
        IF FormThrownCancelFlavoured
        THEN /\ form.status = "idle"
             /\ form.error = NoMessage
        ELSE /\ form.status = "error"
             /\ Len(form.error) > 0

\* C23 witness: a submission was rejected with an error that has no message and
\* is not a cancellation; the form shows an error with a message.
C23_Witness ==
    /\ form.last.handler = "signRejects"
    /\ ~FormThrownCancelFlavoured
    /\ ~form.last.thrown.hasMessage
    /\ form.status = "error"
    /\ form.error = <<"Transaction failed">>

(***************************************************************************)
(* Properties of useBalance.                                               *)
(***************************************************************************)
\* the instance is mounted with a non-null address
MountedWithAddress ==
    balanceHook.phase = "mounted" /\ balanceHook.address # NoPubkey

C25_ErrorBalanceContract ==
    balanceHook.phase = "mounted" =>
        /\ balanceHook.error # Null =>
               (balanceHook.balance = Null /\ balanceHook.balanceLamports = Null)
        /\ balanceHook.balance # Null => balanceHook.error = Null

\* C26 (as claimed): in every reachable state of a mounted instance, isLoading
\* is true if and only if at least one balance fetch of the instance is in
\* flight, also when several fetches overlap.
C26_IsLoadingContract ==
    balanceHook.phase = "mounted" =>
        (balanceHook.isLoading <=> balanceHook.fetches # <<>>)

(***************************************************************************)
(* Properties of confirmTransaction.                                       *)
(***************************************************************************)
\* C27 (as claimed): the wait between successive polls of the signature status
\* grows exponentially with the number of polls already made; stated by what
\* every such growth implies: each wait is longer than the one before it.
C27_ExponentialBackoff ==
    \A k \in 1..(Len(confirmation.waits) - 1) :
        confirmation.waits[k + 1] > confirmation.waits[k]

\* the call was resolved by a poll that returned a status with err, or with
\* confirmationStatus confirmed or finalized
PolledDecisive ==
    /\ confirmation.polled \in SignatureStatuses \ {Null}
    /\ \/ confirmation.polled.err # Null
       \/ confirmation.polled.confirmationStatus \in {"confirmed", "finalized"}

\* what is always true of a call: it has not rejected; it is suspended at a
\* poll only if less than timeout ms had elapsed at the test of the loop; and
\* once it returned after a poll that was not decisive, at least timeout ms had
\* elapsed and the result is the timeout result
ConfirmNeverRejects ==
    /\ confirmation.pc \in {"none", "polling", "waiting", "done"}
    /\ confirmation.pc \in {"polling", "waiting"} =>
           (confirmation.result = Null /\ confirmation.tested < confirmation.timeout)
    /\ (confirmation.pc = "done" /\ ~PolledDecisive) =>
           /\ confirmation.tested >= confirmation.timeout
           /\ confirmation.tested = confirmation.clock
           /\ confirmation.result.confirmed = FALSE
           /\ confirmation.result.confirmations = Null
           /\ confirmation.result.slot = Null
           /\ confirmation.result.error =
                  Message(<<"Transaction confirmation timeout after ",
                            ToString(confirmation.timeout), "ms">>)

C29_ResultCorrectness ==
    /\ confirmation.pc = "done" =>
           /\ confirmation.result # Null
           /\ confirmation.result.confirmed <=> confirmation.result.error = Null
           /\ confirmation.result.confirmed =>
                  /\ confirmation.polled \in SignatureStatuses \ {Null}
                  /\ confirmation.polled.err = Null
                  /\ confirmation.polled.confirmationStatus \in {"confirmed", "finalized"}
                  /\ confirmation.result.confirmations = confirmation.polled.confirmations
                  /\ confirmation.result.slot = confirmation.polled.slot
    /\ (confirmation.polled \in SignatureStatuses \ {Null} /\ confirmation.polled.err # Null) =>
           /\ confirmation.pc = "done"
           /\ confirmation.result.confirmed = FALSE
           /\ confirmation.result.error.message[1] = "Transaction failed: "
           /\ confirmation.result.slot = confirmation.polled.slot
    /\ (confirmation.polled = Null
          \/ (/\ confirmation.polled \in SignatureStatuses \ {Null}
              /\ confirmation.polled.err = Null
              /\ confirmation.polled.confirmationStatus = "processed")) =>
           \/ confirmation.pc \in {"waiting", "polling"}
           \/ /\ confirmation.pc = "done"
              /\ confirmation.tested >= confirmation.timeout
              /\ confirmation.result = TimeoutResult(confirmation.timeout)

\* C29 witness: after a poll that did not end polling and a wait, a poll
\* returned a status with an err and confirmationStatus finalized; the call
\* resolved with the failure.
C29_Witness ==
    /\ confirmation.pc = "done"
    /\ Len(confirmation.waits) >= 1
    /\ confirmation.polled \in SignatureStatuses \ {Null}
    /\ confirmation.polled.err # Null
    /\ confirmation.polled.confirmationStatus = "finalized"
    /\ confirmation.result.confirmed = FALSE
    /\ confirmation.result.error # Null

(***************************************************************************)
(* Properties of reset() against calls in flight.                          *)
(***************************************************************************)
\* C30 (as claimed): after reset() is called, status stays idle and result and
\* error stay null until pay() is called again, also when a pay() call was
\* still in flight at the moment of the reset and its collaborator promise
\* settles afterwards.
C30_ResetIsFinal ==
    history.sinceReset => (status = "idle" /\ result = Null /\ error = Null)

(***************************************************************************)
(* Properties of the states PaymentStatus renders.                         *)
(***************************************************************************)
\* C31: in every reachable state of a usePayment instance, under any
\* interleaving of overlapping pay() calls and reset(), status = error implies
\* error != null and status = success implies result != null.
C31_StatusHasPayload ==
    /\ status = "error" => error # Null
    /\ status = "success" => result # Null

\* C31 witness: of two overlapping pay() calls one has returned with a
\* signature after a reset(), the other is still suspended at
\* signAndSendTransaction; status is success and result is set.
C31_Witness ==
    /\ started = 2
    /\ history.sinceReset
    /\ status = "success"
    /\ result # Null
    /\ returned.successes = 1
    /\ \E c \in CallIds : calls[c].pc = "submitting"

(***************************************************************************)
(* Properties of the callbacks of pay().                                   *)
(***************************************************************************)
\* C32 (as claimed): once signAndSendTransaction has resolved with a signature
\* during pay(), that call ends with status success and result set, and
\* onPaymentError is not invoked for it, whatever onPaymentSuccess does.
C32_SuccessNeverReportedAsFailure ==
    (CallReturned /\ returned.signature # NoSignature) =>
        /\ status = "success"
        /\ result = PaymentResultOf(returned.signature, returned.call)
        /\ returned.errors = 0

\* the call that returned failed validation: it reported INVALID_AMOUNT or
\* INVALID_MERCHANT
ReturnedInvalid ==
    /\ returned.recorded # Null
    /\ returned.recorded.code \in {"INVALID_AMOUNT", "INVALID_MERCHANT"}

\* C33 (as claimed): every pay() call that completes invokes exactly one of
\* onPaymentSuccess, onPaymentError and onPaymentCancel, exactly once;
\* onPaymentStart is invoked at most once per call, only after validation
\* passed and a wallet address is available, and always before
\* signAndSendTransaction is invoked; it is not invoked for a validation
\* failure or a cancelled connect.
C33_CallbackProtocol ==
    /\ CallReturned =>
           /\ returned.errors + returned.cancels + returned.successes = 1
           /\ returned.call.starts <= 1
           /\ returned.call.signs <= returned.call.starts
           /\ returned.call.starts = 1 =>
                  (~ReturnedInvalid /\ returned.call.pubkey # NoPubkey)
           /\ (ReturnedInvalid \/ returned.thrownBy = "connect") => returned.call.starts = 0
    /\ \A c \in CallIds :
           /\ calls[c].starts <= 1
           /\ calls[c].signs <= calls[c].starts
           /\ calls[c].starts = 1 => calls[c].pubkey # NoPubkey

\* the last step was a click on Pay or Try Again that called pay()
WidgetCalledPay ==
    /\ history.handler \in {"handlePay", "handleRetry"}
    /\ ~history.sinceReset

\* C34 (as claimed): a call that reached signAndSendTransaction passed feeToken
\* "USDC" exactly when its currency is "USDC", and once the "Pay fees with"
\* toggle has been used the currency the widget passes to pay() is the one
\* selected with it.
C34_FeeMethodIsSelection ==
    /\ \A c \in CallIds :
          calls[c].feeToken # NotSubmitted
          => calls[c].feeToken = (IF calls[c].currency = "USDC" THEN "USDC" ELSE NoFeeToken)
    /\ (WidgetCalledPay /\ history.toggled)
       => history.submitted.currency = widget.selectedCurrency

\* the pay() calls that are suspended at connect() or signAndSendTransaction
OutstandingCalls == {c \in CallIds : calls[c].pc \in {"connecting", "submitting"}}

\* C35: through the controls of the widget, pay() is entered only from a status
\* other than connecting, processing and success and only with an amount above
\* zero, and at most one pay() call of the widget is outstanding.
C35_WidgetGuard ==
    /\ WidgetCalledPay
       => /\ history.from \notin {"connecting", "processing", "success"}
          /\ ~NumLeq(history.submitted.amount, 0)
    /\ Cardinality(OutstandingCalls) <= 1

\* a retry entered pay() as the second call of the widget and is suspended at
\* signAndSendTransaction, the first call having returned
C35_Witness ==
    /\ WidgetCalledPay
    /\ history.handler = "handleRetry"
    /\ started = 2
    /\ \E c \in CallIds : calls[c].pc = "submitting"
    /\ \E c \in CallIds : calls[c].pc = "done"

\* C36: for any sequence of user actions on the TransferForm at most one
\* signAndSendTransaction call started by the form is pending, and while one
\* is pending result.status is loading.
C36_OneSubmissionOutstanding ==
    /\ Len(form.pending) <= 1
    /\ Len(form.pending) = 1 => form.status = "loading"

\* a click on "Send SOL" has started a submission that is still pending
C36_Witness ==
    /\ Len(form.pending) = 1
    /\ form.status = "loading"
    /\ form.last.handler = "handleSubmit"
    /\ form.pending[1].sender # NoPubkey

\* the connect() calls that have not settled: those of pay() calls and those
\* of the ConnectButton
PendingConnects ==
    connectButton + Cardinality({c \in CallIds : calls[c].pc = "connecting"})

\* C37 (as claimed): with a ConnectButton and a PaymentWidget on one page, no
\* click on Connect, Pay or Try Again invokes connect() while an earlier
\* connect() is pending: at most one connect() call is pending at any time.
C37_NoOverlappingConnects == PendingConnects <= 1

\* the pay() call c reaches signAndSendTransaction in this step
PaySubmits(c) == calls[c].pc # "submitting" /\ calls'[c].pc = "submitting"

\* the transfer of a step that invokes signAndSendTransaction has the address
\* of the connected wallet as its sender
SubmitsWithSender ==
    /\ \A c \in CallIds :
          PaySubmits(c)
          => /\ isConnected'
             /\ calls'[c].pubkey # NoPubkey
             /\ calls'[c].pubkey = smartWalletPubkey'
    /\ FormSubmits
       => /\ isConnected'
          /\ form'.pending[Len(form'.pending)].sender # NoPubkey
          /\ form'.pending[Len(form'.pending)].sender = smartWalletPubkey'

\* a step in which the wallet check of pay() or of handleSubmit finds no
\* address ends in status error and submits nothing
NoSenderNoSubmission ==
    /\ (returned'.call.pc = "done" /\ returned'.thrownBy = "walletCheck")
       => /\ status' = "error"
          /\ error' # Null
          /\ returned'.call.signs = 0
          /\ returned'.signature = NoSignature
    /\ (form' # form /\ form'.last.handler = "handleSubmit"
            /\ FormInputsValid /\ smartWalletPubkey = NoPubkey)
       => /\ form'.status = "error"
          /\ form'.error = <<"Wallet not connected">>
          /\ form'.pending = form.pending

\* C38: signAndSendTransaction is invoked only with a transfer whose sender is
\* the connected wallet's non-null address; when no wallet address is available
\* pay() ends with status error and handleSubmit with the error "Wallet not
\* connected", in both cases without a submission.
C38_NoSubmissionWithoutSender == [][SubmitsWithSender /\ NoSenderNoSubmission]_vars

\* pay() has just ended at its wallet check with status error while a
\* submission of the form, made with the wallet's address as sender, is pending
C38_Witness ==
    /\ returned.call.pc = "done"
    /\ returned.thrownBy = "walletCheck"
    /\ status = "error"
    /\ Len(form.pending) = 1
    /\ form.pending[1].sender # NoPubkey
    /\ form.pending[1].sender = smartWalletPubkey

====
